---- MODULE Spec2Model ----
(***************************************************************************)
(* EDSM-Discovery: the incremental, week-partitioned discovery cache of    *)
(* src/edsm_discovery.py (update_discoveries_cache and its helpers) and    *)
(* the traffic loop and CSV export of main that follow it.                 *)
(*                                                                         *)
(* Time is counted in ticks; a day has TicksPerDay ticks and tick 0 is a   *)
(* Monday at 00:00:00 UTC, so a datetime keeps both its weekday and its    *)
(* time of day.  A calendar date (what strftime("%Y-%m-%d") prints) is the *)
(* day number, i.e. the datetime with its time of day dropped.             *)
(***************************************************************************)
EXTENDS Integers, Sequences, FiniteSets

\* ------------------------------------------------------------------ bounds
TicksPerDay == 2      \* resolution of the time of day
MaxWeeks    == 4      \* the clock runs over weeks 0 .. MaxWeeks-1
MaxDate     == 2      \* firstDiscover log dates 1 .. MaxDate
MaxTraffic  == 2      \* "total" of a traffic answer, 0 .. MaxTraffic

\* ------------------------------------------------------- program constants
DaysPerWeek  == 7     \* timedelta(days=7), datetime.weekday() in 0..6
SAFETY_WEEKS == 2     \* main: "Always refresh last two weeks"
StartDay     == 3     \* main: START_DATE = 2026-01-01, a Thursday

Ids   == {"10", "20"}
Names == {"A", "B"}
Dates == 1..MaxDate
Times == 0..(MaxWeeks * DaysPerWeek * TicksPerDay - 1)
Totals == 0..MaxTraffic

\* ------------------------------------------------------------ pure helpers
\* timedelta(days=n)
days(n) == n * TicksPerDay

\* datetime.weekday(): Monday is 0
weekday(dt) == (dt \div TicksPerDay) % DaysPerWeek

\* the time of day of a datetime
timeofday(dt) == dt % TicksPerDay

\* the alignment going forward, to the Monday on or after dt
AlignToNextMonday(dt) == dt + days((DaysPerWeek - weekday(dt)) % DaysPerWeek)

\* align_to_monday: subtracts whole days only, the time of day is kept
align_to_monday(dt) == dt - days(weekday(dt))

\* interval_key: strftime("%Y-%m-%d"), the date without the time of day
interval_key(start) == start \div TicksPerDay

\* the while loop with "current <= end_date" (an off-by-one in the loop test)
RECURSIVE WeeksFromInclusive(_, _)
WeeksFromInclusive(current, end_date) ==
  IF current <= end_date
    THEN <<<<current, current + days(DaysPerWeek)>>>>
           \o WeeksFromInclusive(current + days(DaysPerWeek), end_date)
    ELSE <<>>

\* the while loop of generate_stable_week_intervals
RECURSIVE WeeksFrom(_, _)
WeeksFrom(current, end_date) ==
  IF current < end_date
    THEN <<<<current, current + days(DaysPerWeek)>>>>
           \o WeeksFrom(current + days(DaysPerWeek), end_date)
    ELSE <<>>

\* generate_stable_week_intervals, as the sequence of (start, end) it yields
generate_stable_week_intervals(s, e) == WeeksFrom(align_to_monday(s), e)

SeqRange(s) == {s[n] : n \in 1..Len(s)}

\* keys popped by the safety-window loop of update_discoveries_cache
safe_start(e) == align_to_monday(e - days(DaysPerWeek * SAFETY_WEEKS))

\* the pop loop started one week too early
SafetyKeysWide(e) ==
  {interval_key(w[1]) :
     w \in SeqRange(generate_stable_week_intervals(safe_start(e) - days(DaysPerWeek), e))}

SafetyKeys(e) ==
  {interval_key(w[1]) : w \in SeqRange(generate_stable_week_intervals(safe_start(e), e))}

\* a candidate loop that keeps only the intervals lying inside the range
RECURSIVE CandidatesInside(_, _, _, _)
CandidatesInside(weeks, s, e, marked) ==
  IF weeks = <<>> THEN <<>>
  ELSE LET w    == Head(weeks)
           rest == CandidatesInside(Tail(weeks), s, e, marked)
       IN  IF w[1] < s \/ w[2] > e
             THEN rest
             ELSE IF interval_key(w[1]) \notin marked
                    THEN <<<<w[1], w[2], interval_key(w[1])>>>> \o rest
                    ELSE rest

\* the candidate loop of update_discoveries_cache
RECURSIVE Candidates(_, _, _, _)
Candidates(weeks, s, e, marked) ==
  IF weeks = <<>> THEN <<>>
  ELSE LET w    == Head(weeks)
           rest == Candidates(Tail(weeks), s, e, marked)
       IN  IF w[2] <= s \/ w[1] >= e
             THEN rest
             ELSE IF interval_key(w[1]) \notin marked
                    THEN <<<<w[1], w[2], interval_key(w[1])>>>> \o rest
                    ELSE rest

\* the entity map: a function from the known ids to their records
NoSystems == [x \in {} |-> [name |-> "A", firstDiscoveryDate |-> 0]]

\* a new id is inserted, a known id is left alone
InsertNew(systems, sys_id, name, date) ==
  [x \in (DOMAIN systems) \cup {sys_id} |->
     IF x = sys_id /\ x \notin DOMAIN systems
       THEN [name |-> name, firstDiscoveryDate |-> date]
       ELSE systems[x]]

\* the merge without its update branch: the first date seen is kept
MergeKeepFirst(systems, sys_id, name, date) ==
  InsertNew(systems, sys_id, name, date)

\* the merge with the comparison reversed: the latest date wins
MergeLatest(systems, sys_id, name, date) ==
  IF sys_id \in DOMAIN systems
    THEN IF date > systems[sys_id].firstDiscoveryDate
           THEN [systems EXCEPT ![sys_id].firstDiscoveryDate = date]
           ELSE systems
    ELSE InsertNew(systems, sys_id, name, date)

\* the merge without its comparison: the last date merged wins
MergeOverwrite(systems, sys_id, name, date) ==
  IF sys_id \in DOMAIN systems
    THEN [systems EXCEPT ![sys_id].firstDiscoveryDate = date]
    ELSE InsertNew(systems, sys_id, name, date)

\* a merge that takes the name along with an earlier date
MergeRename(systems, sys_id, name, date) ==
  IF sys_id \in DOMAIN systems /\ date < systems[sys_id].firstDiscoveryDate
    THEN [systems EXCEPT ![sys_id] = [name |-> name, firstDiscoveryDate |-> date]]
    ELSE InsertNew(systems, sys_id, name, date)

\* one iteration of the merge loop of update_discoveries_cache
Merge(systems, sys_id, name, date) ==
  IF sys_id \in DOMAIN systems
    THEN IF date < systems[sys_id].firstDiscoveryDate
           THEN [systems EXCEPT ![sys_id].firstDiscoveryDate = date]
           ELSE systems
    ELSE [x \in (DOMAIN systems) \cup {sys_id} |->
            IF x = sys_id THEN [name |-> name, firstDiscoveryDate |-> date]
                          ELSE systems[x]]

\* the cache skeleton built when load_cache returns {}
EmptyCache == [intervals |-> {}, systems |-> NoSystems]

\* the cache file: absent, a complete JSON document, or a truncated one
NoFile == [state |-> "absent", intervals |-> {}, systems |-> NoSystems]

\* load_cache followed by the "if not cache" skeleton
load_cache(f) ==
  IF f.state = "ok" THEN [intervals |-> f.intervals, systems |-> f.systems]
                    ELSE EmptyCache

\* save_cache: open(filename, "w") and json.dump of the whole cache
save_cache(c) == [state |-> "ok", intervals |-> c.intervals, systems |-> c.systems]

\* the (str(systemId), system, date) triples a get-logs response can hold:
\* system "10" is logged under either name at any date, system "20" once
Obs == ({"10"} \X Names \X Dates) \cup {<<"20", "B", 1>>}

StartDates == {days(d) + t : d \in {0, StartDay}, t \in {0, 1}}

\* the traffic dict of main, as the "total" kept for each system looked up
\* (week, day and breakdown are stored beside it and read the same way)
NoTraffic == [x \in {} |-> 0]

\* the rows main exports for every entity of the rows of traffic alone
ReportRowsEnriched(systems, tr) ==
  {[systemName |-> systems[x].name, systemId |-> x,
    firstDiscoveryDate |-> systems[x].firstDiscoveryDate,
    totalTraffic |-> tr[x], visitedAfterDiscovery |-> tr[x] > 1] :
     x \in (DOMAIN systems) \cap (DOMAIN tr)}

\* the results list of main: one row per entity of discoveries_cache, with
\* traffic.get(sys_id, {}).get("total", 0)
ReportRows(systems, tr) ==
  {LET total == IF x \in DOMAIN tr THEN tr[x] ELSE 0
   IN  [systemName |-> systems[x].name, systemId |-> x,
        firstDiscoveryDate |-> systems[x].firstDiscoveryDate,
        totalTraffic |-> total, visitedAfterDiscovery |-> total > 1] :
     x \in DOMAIN systems}

\* sorted(results, key=totalTraffic, reverse=True): the orders of the rows
\* with totalTraffic descending (rows of equal traffic keep the dict order,
\* which the model leaves open)
SortedReports(rows) ==
  {q \in [1..Cardinality(rows) -> rows] :
     /\ \A n, m \in DOMAIN q : n # m => q[n] # q[m]
     /\ \A n, m \in DOMAIN q : n < m => q[n].totalTraffic >= q[m].totalTraffic}

\* -------------------------------------------------------------------- state
VARIABLES
  file,               \* first_discoveries_cache.json on disk
  cache,              \* the cache dict of the running update_discoveries_cache
  pc,                 \* position of main: idle, fetch, merge, mark, save, return,
                      \* traffic, export, done
  start_date,         \* argument start_date (the same in every run)
  end_date,           \* argument end_date of the current (or last) run
  intervals_to_fetch, \* the candidate list of the current run
  idx,                \* index of the candidate being processed
  fetch_ok,           \* whether the last get_first_discoveries took its success path
  result,             \* the entity map returned by the last completed run
  minSeen,            \* per id, the earliest date any fetch has returned so far
  traffic,            \* the traffic dict of main
  traffic_err,        \* whether a get_traffic call of this execution has failed
  report              \* the rows written to the CSV file by this execution

mainvars == <<traffic, traffic_err, report>>

vars == <<file, cache, pc, start_date, end_date, intervals_to_fetch, idx,
          fetch_ok, result, minSeen, traffic, traffic_err, report>>

NoDate == MaxDate + 1

Init ==
  /\ file = NoFile
  /\ cache = EmptyCache
  /\ pc = "idle"
  /\ start_date \in StartDates
  /\ end_date = 0
  /\ intervals_to_fetch = <<>>
  /\ idx = 0
  /\ fetch_ok = TRUE
  /\ result = NoSystems
  /\ minSeen = [x \in Ids |-> NoDate]
  /\ traffic = NoTraffic
  /\ traffic_err = FALSE
  /\ report = <<>>

\* ------------------------------------------------------------------ actions
\* update_discoveries_cache up to the candidate list: load the cache, pop the
\* safety-window keys, collect intervals_to_fetch.  utc_now() never goes back,
\* so end_date is at least the end_date of the run before.  A truncated file
\* makes json.load raise: the run never gets past load_cache.
StartRun(e) ==
  /\ pc = "idle"
  /\ file.state # "partial"
  /\ e >= end_date
  /\ LET loaded == load_cache(file)
         popped == [loaded EXCEPT !.intervals = @ \ SafetyKeys(e)]
         todo   == Candidates(generate_stable_week_intervals(start_date, e),
                              start_date, e, popped.intervals)
     IN  /\ cache' = popped
         /\ intervals_to_fetch' = todo
         /\ idx' = 1
         /\ pc' = IF todo = <<>> THEN "return" ELSE "fetch"
  /\ end_date' = e
  /\ fetch_ok' = TRUE
  /\ UNCHANGED <<file, start_date, result, minSeen, mainvars>>

\* get_first_discoveries, success path: msgnum 100, the firstDiscover logs are
\* returned.  The records of the response, any number of them, are drawn one
\* by one as the merge loop consumes them (MergeStep).
FetchOk ==
  /\ pc = "fetch"
  /\ fetch_ok' = TRUE
  /\ pc' = "merge"
  /\ UNCHANGED <<file, cache, start_date, end_date, intervals_to_fetch, idx,
                 result, minSeen, mainvars>>

\* get_first_discoveries, failure paths: an exception or msgnum # 100 give []
FetchFail ==
  /\ pc = "fetch"
  /\ fetch_ok' = FALSE
  /\ pc' = "merge"
  /\ UNCHANGED <<file, cache, start_date, end_date, intervals_to_fetch, idx,
                 result, minSeen, mainvars>>

\* one iteration of "for sys_id, name, date in discoveries"
MergeStep(o) ==
  /\ pc = "merge"
  /\ fetch_ok
  /\ cache' = [cache EXCEPT !.systems = Merge(@, o[1], o[2], o[3])]
  /\ minSeen' = [minSeen EXCEPT ![o[1]] = IF o[3] < @ THEN o[3] ELSE @]
  /\ UNCHANGED <<file, pc, start_date, end_date, intervals_to_fetch, idx,
                 fetch_ok, result, mainvars>>

\* the merge loop is over
MergeDone ==
  /\ pc = "merge"
  /\ pc' = "mark"
  /\ UNCHANGED <<file, cache, start_date, end_date, intervals_to_fetch, idx,
                 fetch_ok, result, minSeen, mainvars>>

\* a mark written only when the fetch of the interval has answered
MarkIfFetched ==
  /\ pc = "mark"
  /\ cache' = IF fetch_ok
                THEN [cache EXCEPT !.intervals = @ \cup {intervals_to_fetch[idx][3]}]
                ELSE cache
  /\ pc' = "save"
  /\ UNCHANGED <<file, start_date, end_date, intervals_to_fetch, idx,
                 fetch_ok, result, minSeen, mainvars>>

\* cache["intervals"][key] = {"fetched_at": ...}; fetched_at is never read
MarkInterval ==
  /\ pc = "mark"
  /\ cache' = [cache EXCEPT !.intervals = @ \cup {intervals_to_fetch[idx][3]}]
  /\ pc' = "save"
  /\ UNCHANGED <<file, start_date, end_date, intervals_to_fetch, idx,
                 fetch_ok, result, minSeen, mainvars>>

\* a loop that would fetch the interval again when its fetch has failed
SaveCacheRetry ==
  /\ pc = "save"
  /\ file' = save_cache(cache)
  /\ idx' = IF fetch_ok THEN idx + 1 ELSE idx
  /\ fetch_ok' = TRUE
  /\ pc' = IF idx' > Len(intervals_to_fetch) THEN "return" ELSE "fetch"
  /\ UNCHANGED <<cache, start_date, end_date, intervals_to_fetch, result, minSeen, mainvars>>

\* save_cache(cache_file, cache); time.sleep; next candidate or leave the loop
SaveCache ==
  /\ pc = "save"
  /\ file' = save_cache(cache)
  /\ idx' = idx + 1
  /\ fetch_ok' = TRUE
  /\ pc' = IF idx = Len(intervals_to_fetch) THEN "return" ELSE "fetch"
  /\ UNCHANGED <<cache, start_date, end_date, intervals_to_fetch, result, minSeen, mainvars>>

\* return cache["systems"]: main goes on with the entity map as its
\* discoveries_cache and an empty traffic dict
Return ==
  /\ pc = "return"
  /\ result' = cache.systems
  /\ traffic' = NoTraffic
  /\ traffic_err' = FALSE
  /\ report' = <<>>
  /\ pc' = "traffic"
  /\ UNCHANGED <<file, cache, start_date, end_date, intervals_to_fetch, idx,
                 fetch_ok, minSeen>>

\* one iteration of the traffic loop of main whose get_traffic answers; the
\* keys are visited in the order of the dict, which the model leaves open
TrafficOk(x, total) ==
  /\ pc = "traffic"
  /\ x \in (DOMAIN result) \ (DOMAIN traffic)
  /\ traffic' = [y \in (DOMAIN traffic) \cup {x} |->
                   IF y = x THEN total ELSE traffic[y]]
  /\ UNCHANGED <<file, cache, pc, start_date, end_date, intervals_to_fetch, idx,
                 fetch_ok, result, minSeen, traffic_err, report>>

\* an iteration of the traffic loop whose get_traffic raises: print and break
TrafficFail ==
  /\ pc = "traffic"
  /\ (DOMAIN result) \ (DOMAIN traffic) # {}
  /\ traffic_err' = TRUE
  /\ pc' = "export"
  /\ UNCHANGED <<file, cache, start_date, end_date, intervals_to_fetch, idx,
                 fetch_ok, result, minSeen, traffic, report>>

\* the traffic loop has visited every key
TrafficDone ==
  /\ pc = "traffic"
  /\ DOMAIN traffic = DOMAIN result
  /\ pc' = "export"
  /\ UNCHANGED <<file, cache, start_date, end_date, intervals_to_fetch, idx,
                 fetch_ok, result, minSeen, mainvars>>

\* the CSV export of main: the rows of every entity, most visited first (with
\* no entity at all, results_sorted[0] raises and the CSV file stays empty)
Export ==
  /\ pc = "export"
  /\ report' \in SortedReports(ReportRows(result, traffic))
  /\ pc' = "done"
  /\ UNCHANGED <<file, cache, start_date, end_date, intervals_to_fetch, idx,
                 fetch_ok, result, minSeen, traffic, traffic_err>>

\* main ends and with it the process: its locals are gone (the CSV file is
\* never read again, the model forgets it)
Exit ==
  /\ pc = "done"
  /\ cache' = EmptyCache
  /\ intervals_to_fetch' = <<>>
  /\ idx' = 0
  /\ traffic' = NoTraffic
  /\ traffic_err' = FALSE
  /\ report' = <<>>
  /\ pc' = "idle"
  /\ UNCHANGED <<file, start_date, end_date, fetch_ok, result, minSeen>>

\* the process is killed outside save_cache: memory is lost, the file stays
Terminate ==
  /\ pc # "idle"
  /\ pc' = "idle"
  /\ cache' = EmptyCache
  /\ intervals_to_fetch' = <<>>
  /\ idx' = 0
  /\ fetch_ok' = TRUE
  /\ traffic' = NoTraffic
  /\ traffic_err' = FALSE
  /\ report' = <<>>
  /\ UNCHANGED <<file, start_date, end_date, result, minSeen>>

\* the process is killed inside save_cache, after open(filename, "w") has
\* truncated the file and before json.dump has written the whole document
TerminateInSave ==
  /\ pc = "save"
  /\ file' = [state |-> "partial", intervals |-> {}, systems |-> NoSystems]
  /\ pc' = "idle"
  /\ cache' = EmptyCache
  /\ intervals_to_fetch' = <<>>
  /\ idx' = 0
  /\ fetch_ok' = TRUE
  /\ UNCHANGED <<start_date, end_date, result, minSeen, mainvars>>

Next ==
  \/ \E e \in Times : StartRun(e)
  \/ FetchOk
  \/ FetchFail
  \/ \E o \in Obs : MergeStep(o)
  \/ MergeDone
  \/ MarkInterval
  \/ SaveCache
  \/ Return
  \/ \E x \in Ids, total \in Totals : TrafficOk(x, total)
  \/ TrafficFail
  \/ TrafficDone
  \/ Export
  \/ Exit

\* every run returns
Spec == Init /\ [][Next]_vars

NextCrash == Next \/ Terminate \/ TerminateInSave

\* runs may be terminated at any point
CrashSpec == Init /\ [][NextCrash]_vars

\* ----------------------------------------------------- views of the state
\* main is executing: update_discoveries_cache is in progress, or it has
\* returned and its cache, unchanged, backs the entity map main works on
Running == pc # "idle"

\* the interval being processed, as (start, end, key)
Current == intervals_to_fetch[idx]

\* keys of the candidate list
CandidateKeys == {intervals_to_fetch[n][3] : n \in 1..Len(intervals_to_fetch)}

\* the weekly intervals of the requested range
RangeWeeks == SeqRange(generate_stable_week_intervals(start_date, end_date))

\* the store: the cache of the running call, the cache file between calls
StoreIntervals == IF Running THEN cache.intervals ELSE file.intervals

StoreSystems == IF Running THEN cache.systems ELSE file.systems

\* keys of the candidates the run has still to fetch
PendingKeys ==
  {intervals_to_fetch[n][3] :
     n \in {m \in 1..Len(intervals_to_fetch) :
              IF pc = "save" THEN m > idx ELSE m >= idx}}

\* the merge of one returned triple
MergeObs(systems, o) == Merge(systems, o[1], o[2], o[3])

\* ------------------------------------------------------------------- claims
\* C1: when the fetch of a candidate interval fails (exception or non-success
\* status, so get_first_discoveries returns []), the key of that interval is
\* not written into the intervals map of the store.
C1_FailedFetchNotMarked ==
  (pc = "save" /\ ~fetch_ok) => Current[3] \notin cache.intervals

\* C2: whenever a run ends, by returning or by the process being terminated
\* at any point, the persisted store is a complete snapshot that holds the
\* mark of every interval the run had completed.
C2_TerminationKeepsCompletedIntervals ==
  [][(pc # "idle" /\ pc' = "idle") =>
        /\ file'.state # "partial"
        /\ \A n \in 1..(idx - 1) : intervals_to_fetch[n][3] \in file'.intervals]_vars

\* C3: in every run, every weekly interval of the requested range whose window
\* overlaps the trailing safety window [safe_start, end_date) is a candidate of
\* that run, whatever the store held before.
C3_SafetyWindowRefetched ==
  Running =>
    \A w \in RangeWeeks :
      (w[1] < end_date /\ w[2] > safe_start(end_date))
        => interval_key(w[1]) \in CandidateKeys

\* C4: when start_date >= end_date the candidate list is empty (no fetch, no
\* write of the store).
C4_EmptyRangeNoCandidates ==
  (Running /\ start_date >= end_date) => intervals_to_fetch = <<>>

\* C5: across runs with the same start_date and non-decreasing end_date, a
\* marked interval that ends at or before the start of a run's safety window
\* keeps its mark and is not fetched, in that run and in every later step.
Settled(k, e) ==
  days(k) + timeofday(start_date) + days(DaysPerWeek) <= safe_start(e)

C5_SettledIntervalsStay ==
  [][\A k \in StoreIntervals :
        Settled(k, end_date') => (k \in StoreIntervals' /\ k \notin PendingKeys')]_vars

\* C5 witness: a run that fetches while a mark made by an earlier run lies
\* wholly before its safety window
C5_Witness ==
  /\ pc = "fetch"
  /\ \E k \in file.intervals \cap cache.intervals : Settled(k, end_date)

\* a run is started with the end_date of the run before it, over a range
\* longer than the safety window
Rerun ==
  /\ pc = "idle" /\ pc' # "idle"
  /\ file.state = "ok"
  /\ end_date' = end_date
  /\ end_date' - start_date > days(DaysPerWeek * SAFETY_WEEKS)

\* the Monday (as a date) of the week of a datetime
MondayOf(dt) == interval_key(dt) - weekday(dt)

C7_EarliestDateStored ==
  pc = "idle" =>
    /\ result = file.systems
    /\ \A x \in Ids :
         IF minSeen[x] = NoDate
           THEN x \notin DOMAIN file.systems
           ELSE /\ x \in DOMAIN file.systems
                /\ file.systems[x].firstDiscoveryDate = minSeen[x]

\* C7 witness: after runs that marked two intervals, an entity is stored with
\* the earliest of the dates
C7_Witness ==
  /\ pc = "idle"
  /\ Cardinality(file.intervals) >= 2
  /\ "10" \in DOMAIN result
  /\ result["10"].firstDiscoveryDate = 1
  /\ minSeen["10"] = 1

\* b keeps every entity of a, none with a later date
NotLater(a, b) ==
  \A x \in DOMAIN a :
    x \in DOMAIN b /\ b[x].firstDiscoveryDate <= a[x].firstDiscoveryDate

\* C8: no step removes an entity from the store or moves its
\* firstDiscoveryDate later, in the running cache and in the cache file.
C8_EntitiesNeverLater ==
  [][NotLater(StoreSystems, StoreSystems') /\ NotLater(file.systems, file'.systems)]_vars

\* C8 witness: a merge has moved the date of an entity of the cache file earlier
C8_Witness ==
  /\ pc = "merge"
  /\ "10" \in DOMAIN file.systems
  /\ cache.systems["10"].firstDiscoveryDate < file.systems["10"].firstDiscoveryDate

\* C9: merging two returned triples in either order yields the same entity
\* map, names included.
C9_MergeCommutes ==
  (pc = "merge" /\ fetch_ok) =>
    \A o1, o2 \in Obs :
      MergeObs(MergeObs(cache.systems, o1), o2) = MergeObs(MergeObs(cache.systems, o2), o1)

\* C10: merging a triple twice equals merging it once, and merging a triple
\* whose date is not earlier than the stored date of its id (as every triple
\* merged before is) leaves the entity map unchanged.
C10_MergeIdempotent ==
  \A o \in Obs :
    LET once == MergeObs(StoreSystems, o)
    IN  /\ MergeObs(once, o) = once
        /\ (/\ o[1] \in DOMAIN StoreSystems
            /\ StoreSystems[o[1]].firstDiscoveryDate <= o[3]) => once = StoreSystems

\* C10 witness: an interval marked by an earlier run is fetched again and the
\* entity map is the one that run stored
C10_Witness ==
  /\ pc = "merge" /\ fetch_ok
  /\ Current[3] \in file.intervals
  /\ "10" \in DOMAIN cache.systems
  /\ cache.systems = file.systems

\* C11: every interval of generate_stable_week_intervals starts on a Monday at
\* 00:00:00, the first one at or before start_date, ends 7 days after its
\* start, and starts where the interval before it ends.
C11_IntervalsStartMondayMidnight ==
  Running =>
    LET weeks == generate_stable_week_intervals(start_date, end_date)
    IN  /\ weeks # <<>> => weeks[1][1] <= start_date
        /\ \A n \in 1..Len(weeks) :
             /\ weekday(weeks[n][1]) = 0
             /\ timeofday(weeks[n][1]) = 0
             /\ weeks[n][2] = weeks[n][1] + days(DaysPerWeek)
             /\ n > 1 => weeks[n][1] = weeks[n - 1][2]

\* C12: a start date in the same Monday-based week as start_date, with the
\* same end_date, yields the same interval boundaries.
C12_SameWeekSameIntervals ==
  Running =>
    \A s \in Times :
      MondayOf(s) = MondayOf(start_date)
        => generate_stable_week_intervals(s, end_date)
             = generate_stable_week_intervals(start_date, end_date)

\* C13: for start_date < end_date the generated sequence is finite and not
\* empty, begins at or before start_date, has every start before end_date,
\* has no gap, and only its last window reaches end_date or beyond: the
\* windows cover [start_date, end_date).
C13_IntervalsCoverRange ==
  (Running /\ start_date < end_date) =>
    LET weeks == generate_stable_week_intervals(start_date, end_date)
        n     == Len(weeks)
    IN  /\ n >= 1
        /\ weeks[1][1] <= start_date
        /\ weeks[n][2] >= end_date
        /\ \A m \in 1..n :
             /\ weeks[m][1] < end_date
             /\ weeks[m][1] < weeks[m][2]
             /\ m < n => (weeks[m][2] = weeks[m + 1][1] /\ weeks[m][2] < end_date)

\* C13 witness: a run over a range of several weeks whose start_date is
\* inside the first window and whose end_date is inside the last one
C13_Witness ==
  /\ pc = "fetch"
  /\ start_date < end_date
  /\ Len(generate_stable_week_intervals(start_date, end_date)) >= 3
  /\ align_to_monday(start_date) < start_date
  /\ \E w \in RangeWeeks : w[1] < end_date /\ end_date < w[2]


\* C14: once a traffic lookup has failed, no further lookup is made (the
\* traffic dict stays as it is), the discovery store file and the entity map
\* are left alone, and the export that follows writes one row for every
\* entity of the map, with total traffic 0 and visitedAfterDiscovery false
\* for each entity that has not been looked up.
C14_TrafficFailureStopsEnrichment ==
  [][(traffic_err /\ pc # "idle") =>
       /\ pc' # "idle" => traffic' = traffic
       /\ file' = file
       /\ result' = result
       /\ pc' = "done" =>
            /\ Len(report') = Cardinality(DOMAIN result)
            /\ \A x \in DOMAIN result :
                 \E n \in DOMAIN report' :
                   /\ report'[n].systemId = x
                   /\ report'[n].systemName = result[x].name
                   /\ report'[n].firstDiscoveryDate = result[x].firstDiscoveryDate
                   /\ x \notin DOMAIN traffic =>
                        /\ report'[n].totalTraffic = 0
                        /\ report'[n].visitedAfterDiscovery = FALSE]_vars

\* a failed lookup after one that answered, and an export of both entities
C14_Witness ==
  /\ pc = "done"
  /\ traffic_err
  /\ Cardinality(DOMAIN result) = 2
  /\ Cardinality(DOMAIN traffic) = 1
  /\ Len(report) = 2
  /\ \E n \in DOMAIN report : report[n].visitedAfterDiscovery


\* C15: within one run of update_discoveries_cache the candidates are
\* processed in strictly ascending order of start, one after the other and
\* each fetched once, failed or not: the fetch of candidate idx is followed
\* by its merge, then its interval mark, then the save of the cache, and only
\* the save moves on to candidate idx + 1; the candidate list does not change
\* during the run, and the run returns after the save of the last candidate,
\* that is after exactly Len(intervals_to_fetch) fetches.
C15_SequentialProcessing ==
  [][/\ \A n, m \in 1..Len(intervals_to_fetch) :
          n < m => intervals_to_fetch[n][1] < intervals_to_fetch[m][1]
     /\ pc # "idle" => intervals_to_fetch' = intervals_to_fetch \/ pc' = "idle"
     /\ pc = "idle" =>
          /\ idx' = 1
          /\ pc' = IF intervals_to_fetch' = <<>> THEN "return" ELSE "fetch"
     /\ pc = "fetch" =>
          /\ idx \in 1..Len(intervals_to_fetch)
          /\ pc' = "merge" /\ idx' = idx
          /\ cache' = cache /\ file' = file
     /\ pc = "merge" =>
          /\ pc' \in {"merge", "mark"} /\ idx' = idx
          /\ cache'.intervals = cache.intervals /\ file' = file
     /\ pc = "mark" =>
          /\ pc' = "save" /\ idx' = idx
          /\ cache'.intervals = cache.intervals \cup {Current[3]}
          /\ cache'.systems = cache.systems /\ file' = file
     /\ pc = "save" =>
          /\ file' = save_cache(cache) /\ cache' = cache
          /\ idx' = idx + 1
          /\ pc' = IF idx = Len(intervals_to_fetch) THEN "return" ELSE "fetch"
     /\ pc = "return" =>
          /\ idx = Len(intervals_to_fetch) + 1
          /\ pc' = "traffic" /\ file' = file
    ]_vars

\* a run with a candidate still to come after the one whose fetch has failed
C15_Witness ==
  /\ pc = "save"
  /\ ~fetch_ok
  /\ idx >= 2
  /\ idx < Len(intervals_to_fetch)


\* C16: the merge of an observation of an id that is already in the entity
\* map changes at most the firstDiscoveryDate of that entity: the name stays
\* the one stored when the id was inserted (the name of its first
\* observation), also when the observation is earlier and carries another
\* name; every other entity, the intervals map and the cache file are left
\* unchanged by a merge step, and no step ever changes the name of an entity
\* of the store.
C16_MergeKeepsNameAndFrame ==
  [][/\ (pc = "merge" /\ fetch_ok) =>
          \A o \in Obs :
            o[1] \in DOMAIN cache.systems =>
              LET after == MergeObs(cache.systems, o)
              IN  /\ DOMAIN after = DOMAIN cache.systems
                  /\ after[o[1]].name = cache.systems[o[1]].name
                  /\ after[o[1]].firstDiscoveryDate
                       \in {cache.systems[o[1]].firstDiscoveryDate, o[3]}
                  /\ \A y \in DOMAIN after : y # o[1] => after[y] = cache.systems[y]
     /\ (pc = "merge" /\ pc' = "merge") =>
          /\ cache'.intervals = cache.intervals
          /\ file' = file
          /\ \E o \in Obs :
               /\ DOMAIN cache'.systems = DOMAIN cache.systems \cup {o[1]}
               /\ \A y \in DOMAIN cache.systems :
                    y # o[1] => cache'.systems[y] = cache.systems[y]
               /\ o[1] \notin DOMAIN cache.systems =>
                    cache'.systems[o[1]] = [name |-> o[2], firstDiscoveryDate |-> o[3]]
     /\ \A y \in DOMAIN StoreSystems :
          /\ y \in DOMAIN StoreSystems'
          /\ StoreSystems'[y].name = StoreSystems[y].name
    ]_vars

\* a merge loop that can be handed an earlier observation of a stored entity
\* under another name, with another entity in the map
C16_Witness ==
  /\ pc = "merge"
  /\ fetch_ok
  /\ "20" \in DOMAIN cache.systems
  /\ \E o \in Obs :
       /\ o[1] \in DOMAIN cache.systems
       /\ o[2] # cache.systems[o[1]].name
       /\ o[3] < cache.systems[o[1]].firstDiscoveryDate


\* C17: every interval yielded by generate_stable_week_intervals(s, e) ends
\* after s and starts before e, for every s and e (every s is tried with the
\* end_date of every first run, the range of every run at its start), so the
\* overlap filter of the candidate loop drops nothing: when a run starts,
\* intervals_to_fetch is exactly the generated intervals of the range, in
\* their order, whose key is not in the intervals map left by the
\* invalidation, and with an empty cache file it is the whole generated
\* sequence.
C17_CandidatesAreUnmarkedWeeks ==
  [][(pc = "idle" /\ pc' # "idle") =>
       LET weeks == generate_stable_week_intervals(start_date, end_date')
           keep  == {n \in 1..Len(weeks) :
                       interval_key(weeks[n][1]) \notin cache'.intervals}
           todo  == intervals_to_fetch'
       IN  /\ file.state = "absent" =>
                \A s \in Times :
                  \A w \in SeqRange(generate_stable_week_intervals(s, end_date')) :
                    w[2] > s /\ w[1] < end_date'
           /\ \A w \in SeqRange(weeks) : w[2] > start_date /\ w[1] < end_date'
           /\ cache'.intervals = load_cache(file).intervals \ SafetyKeys(end_date')
           /\ Len(todo) = Cardinality(keep)
           /\ {<<todo[n][1], todo[n][2]>> : n \in 1..Len(todo)} = {weeks[n] : n \in keep}
           /\ \A n \in 1..Len(todo) : todo[n][3] = interval_key(todo[n][1])
           /\ \A n, m \in 1..Len(todo) : n < m => todo[n][1] < todo[m][1]
           /\ load_cache(file).intervals = {} =>
                todo = [n \in 1..Len(weeks) |->
                          <<weeks[n][1], weeks[n][2], interval_key(weeks[n][1])>>]
    ]_vars

\* a run that starts on a cache file with marks, over a range that begins and
\* ends inside a week, and skips some but not all of the generated intervals
C17_Witness ==
  /\ pc = "fetch"
  /\ idx = 1
  /\ file.intervals # {}
  /\ align_to_monday(start_date) < start_date
  /\ weekday(end_date) # 0
  /\ Len(intervals_to_fetch) < Len(generate_stable_week_intervals(start_date, end_date))
  /\ intervals_to_fetch[1][1] > start_date


====
